---- MODULE Spec2Model ----
(***************************************************************************)
(* accessible_games: process-wide mixer/window state (load, exit), the     *)
(* espeak-ng speech controller (speak) and the Player channel wrapper.     *)
(*                                                                         *)
(* The pygame mixer is modelled by what its calls do: a channel is busy    *)
(* while it is playing or paused (Mix_Playing), find_channel() returns the *)
(* lowest channel that is not busy without reserving it, a channel method  *)
(* raises pygame.error while the mixer is not initialised, and a channel   *)
(* number at or above the current channel count is never busy and cannot   *)
(* be played on.                                                           *)
(***************************************************************************)
EXTENDS Integers, FiniteSets, Sequences, TLC

\* ---- bounds -------------------------------------------------------------
MaxChannels == 2
MaxPlayers == 2
MaxProcs == 2
MaxQueue == 2
MaxSeconds == 3
MaxFrameTime == 2

\* ---- value sets ---------------------------------------------------------
Channels == 0 .. (MaxChannels - 1)
ChannelCounts == 1 .. MaxChannels
PlayerIds == 1 .. MaxPlayers
ProcIds == 1 .. MaxProcs
NoChannel == -1
NoSound == 0
NoProcess == 0
NoPlayer == 0
Percentages == {-1, 0, 10, 50, 100, 101}

\* SDL_mixer MIX_MAX_VOLUME: the chunk volume of Sound.set_volume(1.0)
MIX_MAX_VOLUME == 128

VARIABLES
    _initialized,   \* module flag _initialized
    numChannels,    \* pygame.mixer.get_num_channels(); 0 while the mixer is quit
    chan,           \* mixer channel -> [state, sound]
    players,        \* Player objects: id -> [live, channel, _paused, volume]
    built,          \* Players constructed since the last successful load()
    _process,       \* module handle _process: NoProcess or a process id
    procs,          \* OS view of the espeak-ng processes spawned so far
    spawned,        \* number of Popen() calls that have happened
    exePresent,     \* does shutil.which("espeak-NG") find the executable
    last,           \* the call that ended last and how it ended
    pc,             \* where the module-level pause() or input() call stands
    queue,          \* the pygame event queue
    batch,          \* what is left of the list pygame.event.get() returned
    seconds,        \* pause(): the argument, in frame periods
    elapsed,        \* pause(): time.time() - start, in frame periods
    hasCb,          \* pause(): an update_callback was passed
    frames,         \* pause(): loop bodies entered in this call
    cbCount,        \* pause(): update_callback() invocations in this call
    cbFrame,        \* pause(): update_callback() invocations in this frame
    quitSeen        \* a QUIT event was handled in the current or last call

audioVars == <<_initialized, numChannels, chan, players, built>>
speechVars == <<_process, procs, spawned, exePresent>>
callVars == <<pc, batch, seconds, elapsed, hasCb, frames, cbCount, cbFrame, quitSeen>>
eventVars == <<queue>>
loopVars == <<callVars, eventVars>>
vars == <<_initialized, numChannels, chan, players, built,
          _process, procs, spawned, exePresent, last,
          pc, queue, batch, seconds, elapsed, hasCb, frames, cbCount, cbFrame,
          quitSeen>>

\* ---- helpers ------------------------------------------------------------
IdleChannel == [state |-> "idle", sound |-> NoSound]

NoPlayerObj == [live |-> FALSE, channel |-> NoChannel, _paused |-> FALSE, volume |-> MIX_MAX_VOLUME]

Result(op, p, raised, ret) == [op |-> op, p |-> p, raised |-> raised, ret |-> ret, exc |-> FALSE]

\* Channel.get_busy(): Mix_Playing(n), true for a playing or a paused channel
get_busy(c) == c \in Channels /\ c < numChannels /\ chan[c].state # "idle"

\* pygame.mixer.find_channel(): the lowest channel that is not busy, else None
find_channel ==
    IF \E c \in Channels : c < numChannels /\ ~get_busy(c)
    THEN CHOOSE c \in Channels : /\ c < numChannels /\ ~get_busy(c)
                                 /\ \A d \in Channels : (d < numChannels /\ ~get_busy(d)) => c <= d
    ELSE NoChannel

\* Channel.stop(): Mix_HaltChannel
ChannelStop(c) ==
    IF c \in Channels /\ c < numChannels THEN [chan EXCEPT ![c] = IdleChannel] ELSE chan

\* pygame.init() opens, and pygame.quit() discards, the event queue
ClearEvents == queue' = <<>>

\* ---- load / exit --------------------------------------------------------
\* load() without the double-initialisation check
load_NoGuard(channels) ==
    /\ ClearEvents
    /\ UNCHANGED callVars
    /\ _initialized' = TRUE
    /\ numChannels' = channels
    /\ chan' = [c \in Channels |-> IdleChannel]
    /\ built' = 0
    /\ last' = Result("load", NoPlayer, "none", "None")
    /\ UNCHANGED <<players, speechVars>>

load(channels) ==
    IF _initialized
    THEN /\ last' = Result("load", NoPlayer, "RuntimeError", "None")
         /\ UNCHANGED <<audioVars, speechVars, loopVars>>
    ELSE /\ _initialized' = TRUE
         /\ ClearEvents
         /\ UNCHANGED callVars
         /\ numChannels' = channels
         /\ chan' = [c \in Channels |-> IdleChannel]
         /\ built' = 0
         /\ last' = Result("load", NoPlayer, "none", "None")
         /\ UNCHANGED <<players, speechVars>>

exit ==
    IF ~_initialized
    THEN /\ last' = Result("exit", NoPlayer, "RuntimeError", "None")
         /\ UNCHANGED <<audioVars, speechVars, loopVars>>
    ELSE /\ _initialized' = FALSE
         /\ ClearEvents
         /\ UNCHANGED callVars
         /\ numChannels' = 0
         /\ chan' = [c \in Channels |-> IdleChannel]
         /\ last' = Result("exit", NoPlayer, "none", "None")
         /\ UNCHANGED <<players, built, speechVars>>

\* ---- speak --------------------------------------------------------------
\* a terminate() that never signals the process
Terminate_Never(q) == procs

\* Popen.terminate(): SIGTERM to a process that has not exited, else nothing;
\* on None the AttributeError is swallowed by the bare except
Terminate(q) ==
    IF q # NoProcess /\ procs[q] = "running"
    THEN [procs EXCEPT ![q] = "terminating"]
    ELSE procs

\* speak() that stops the old speech before it looks for the executable
speak_TerminateFirst ==
    /\ UNCHANGED loopVars
    /\ IF ~exePresent
       THEN /\ procs' = Terminate(_process)
            /\ last' = Result("speak", NoPlayer, "none", "False")
            /\ UNCHANGED <<audioVars, _process, spawned, exePresent>>
       ELSE /\ spawned < MaxProcs
            /\ procs' = [Terminate(_process) EXCEPT ![spawned + 1] = "running"]
            /\ _process' = spawned + 1
            /\ spawned' = spawned + 1
            /\ last' = Result("speak", NoPlayer, "none", "True")
            /\ UNCHANGED <<audioVars, exePresent>>

\* speak() that stores the new handle only when none is stored yet
speak_KeepsHandle ==
    /\ UNCHANGED loopVars
    /\ IF ~exePresent
       THEN /\ last' = Result("speak", NoPlayer, "none", "False")
            /\ UNCHANGED <<audioVars, speechVars>>
       ELSE /\ spawned < MaxProcs
            /\ procs' = [Terminate(_process) EXCEPT ![spawned + 1] = "running"]
            /\ _process' = IF _process = NoProcess THEN spawned + 1 ELSE _process
            /\ spawned' = spawned + 1
            /\ last' = Result("speak", NoPlayer, "none", "True")
            /\ UNCHANGED <<audioVars, exePresent>>

speak ==
    /\ UNCHANGED loopVars
    /\ IF ~exePresent
       THEN /\ last' = Result("speak", NoPlayer, "none", "False")
            /\ UNCHANGED <<audioVars, speechVars>>
       ELSE /\ spawned < MaxProcs
            /\ procs' = [Terminate(_process) EXCEPT ![spawned + 1] = "running"]
            /\ _process' = spawned + 1
            /\ spawned' = spawned + 1
            /\ last' = Result("speak", NoPlayer, "none", "True")
            /\ UNCHANGED <<audioVars, exePresent>>

\* an espeak-ng process ends: it finished speaking or it acted on SIGTERM
ProcessExits(q) ==
    /\ UNCHANGED loopVars
    /\ procs[q] \in {"running", "terminating"}
    /\ procs' = [procs EXCEPT ![q] = "exited"]
    /\ UNCHANGED <<audioVars, _process, spawned, exePresent, last>>

\* espeak-ng is installed on, or removed from, the search path
PathChanges ==
    /\ UNCHANGED loopVars
    /\ exePresent' = ~exePresent
    /\ UNCHANGED <<audioVars, _process, procs, spawned, last>>

\* ---- Player -------------------------------------------------------------
FreeId == CHOOSE p \in PlayerIds : ~players[p].live /\ \A q \in PlayerIds : ~players[q].live => p <= q

PlayerInit(validFile) ==
    /\ UNCHANGED loopVars
    /\ \E p \in PlayerIds : ~players[p].live
    /\ IF ~_initialized
       THEN /\ last' = Result("Player", NoPlayer, "NotInitialized", "None")
            /\ UNCHANGED <<audioVars, speechVars>>
       ELSE IF ~validFile
       THEN /\ last' = Result("Player", NoPlayer, "FileError", "None")
            /\ UNCHANGED <<audioVars, speechVars>>
       ELSE IF find_channel = NoChannel
       THEN /\ last' = Result("Player", NoPlayer, "NoChannel", "None")
            /\ UNCHANGED <<audioVars, speechVars>>
       ELSE /\ players' = [players EXCEPT ![FreeId] =
                              [live |-> TRUE, channel |-> find_channel,
                               _paused |-> FALSE, volume |-> MIX_MAX_VOLUME]]
            /\ built' = built + 1
            /\ last' = Result("Player", FreeId, "none", "None")
            /\ UNCHANGED <<_initialized, numChannels, chan, speechVars>>

\* Channel.unpause(): Mix_Resume, acts on a paused channel only
ChannelUnpause(c) ==
    IF c < numChannels /\ chan[c].state = "paused"
    THEN [chan EXCEPT ![c].state = "playing"]
    ELSE chan

\* Channel.play(sound): Mix_PlayChannel, replaces what the channel holds
ChannelPlay(c, snd) ==
    IF c < numChannels
    THEN [chan EXCEPT ![c] = [state |-> "playing", sound |-> snd]]
    ELSE chan

\* Channel.pause(): Mix_Pause
ChannelPause(c) ==
    IF c < numChannels /\ chan[c].state = "playing"
    THEN [chan EXCEPT ![c].state = "paused"]
    ELSE chan

\* play() without the initialisation check
play_NoGuard(p) ==
    /\ UNCHANGED loopVars
    /\ players[p].live
    /\ chan' = IF players[p]._paused
               THEN ChannelUnpause(players[p].channel)
               ELSE ChannelPlay(players[p].channel, p)
    /\ players' = [players EXCEPT ![p]._paused = FALSE]
    /\ last' = Result("play", p, "none", "None")
    /\ UNCHANGED <<_initialized, numChannels, built, speechVars>>

play(p) ==
    /\ UNCHANGED loopVars
    /\ players[p].live
    /\ IF ~_initialized
       THEN /\ last' = Result("play", p, "NotInitialized", "None")
            /\ UNCHANGED <<audioVars, speechVars>>
       ELSE /\ chan' = IF players[p]._paused
                       THEN ChannelUnpause(players[p].channel)
                       ELSE ChannelPlay(players[p].channel, p)
            /\ players' = [players EXCEPT ![p]._paused = FALSE]
            /\ last' = Result("play", p, "none", "None")
            /\ UNCHANGED <<_initialized, numChannels, built, speechVars>>

\* pause() that sets the flag before it looks at the channel
pause_FlagFirst(p) ==
    /\ UNCHANGED loopVars
    /\ players[p].live
    /\ IF ~_initialized
       THEN /\ last' = Result("pause", p, "pygame.error", "None")
            /\ UNCHANGED <<audioVars, speechVars>>
       ELSE IF ~get_busy(players[p].channel)
       THEN /\ last' = Result("pause", p, "NotPlaying", "None")
            /\ players' = [players EXCEPT ![p]._paused = TRUE]
            /\ UNCHANGED <<_initialized, numChannels, chan, built, speechVars>>
       ELSE /\ chan' = ChannelPause(players[p].channel)
            /\ players' = [players EXCEPT ![p]._paused = TRUE]
            /\ last' = Result("pause", p, "none", "None")
            /\ UNCHANGED <<_initialized, numChannels, built, speechVars>>

pause(p) ==
    /\ UNCHANGED loopVars
    /\ players[p].live
    /\ IF ~_initialized
       THEN /\ last' = Result("pause", p, "pygame.error", "None")
            /\ UNCHANGED <<audioVars, speechVars>>
       ELSE IF ~get_busy(players[p].channel)
       THEN /\ last' = Result("pause", p, "NotPlaying", "None")
            /\ UNCHANGED <<audioVars, speechVars>>
       ELSE /\ chan' = ChannelPause(players[p].channel)
            /\ players' = [players EXCEPT ![p]._paused = TRUE]
            /\ last' = Result("pause", p, "none", "None")
            /\ UNCHANGED <<_initialized, numChannels, built, speechVars>>

\* stop() without the get_busy() check
stop_NoBusyCheck(p) ==
    /\ UNCHANGED loopVars
    /\ players[p].live
    /\ IF ~_initialized
       THEN /\ last' = Result("stop", p, "pygame.error", "None")
            /\ UNCHANGED <<audioVars, speechVars>>
       ELSE /\ chan' = ChannelStop(players[p].channel)
            /\ players' = [players EXCEPT ![p]._paused = FALSE]
            /\ last' = Result("stop", p, "none", "None")
            /\ UNCHANGED <<_initialized, numChannels, built, speechVars>>

stop(p) ==
    /\ UNCHANGED loopVars
    /\ players[p].live
    /\ IF ~_initialized
       THEN /\ last' = Result("stop", p, "pygame.error", "None")
            /\ UNCHANGED <<audioVars, speechVars>>
       ELSE IF ~get_busy(players[p].channel)
       THEN /\ last' = Result("stop", p, "NotPlaying", "None")
            /\ UNCHANGED <<audioVars, speechVars>>
       ELSE /\ chan' = ChannelStop(players[p].channel)
            /\ players' = [players EXCEPT ![p]._paused = FALSE]
            /\ last' = Result("stop", p, "none", "None")
            /\ UNCHANGED <<_initialized, numChannels, built, speechVars>>

\* Sound.set_volume(percentage / 100.0): Mix_VolumeChunk(chunk, (int)(v * 128)),
\* the fraction cut down to a whole number of 128ths
set_volume(percentage) == (percentage * MIX_MAX_VOLUME) \div 100

\* volume() whose range test leaves out the two ends
volume_ExclusiveBounds(p, percentage) ==
    /\ UNCHANGED loopVars
    /\ players[p].live
    /\ IF ~(0 < percentage /\ percentage < 100)
       THEN /\ last' = Result("volume", p, "ValueError", "None")
            /\ UNCHANGED <<audioVars, speechVars>>
       ELSE IF ~_initialized
       THEN /\ last' = Result("volume", p, "pygame.error", "None")
            /\ UNCHANGED <<audioVars, speechVars>>
       ELSE /\ players' = [players EXCEPT ![p].volume = set_volume(percentage)]
            /\ last' = Result("volume", p, "none", "None")
            /\ UNCHANGED <<_initialized, numChannels, chan, built, speechVars>>

volume(p, percentage) ==
    /\ UNCHANGED loopVars
    /\ players[p].live
    /\ IF ~(0 <= percentage /\ percentage <= 100)
       THEN /\ last' = Result("volume", p, "ValueError", "None")
            /\ UNCHANGED <<audioVars, speechVars>>
       ELSE IF ~_initialized
       THEN /\ last' = Result("volume", p, "pygame.error", "None")
            /\ UNCHANGED <<audioVars, speechVars>>
       ELSE /\ players' = [players EXCEPT ![p].volume = set_volume(percentage)]
            /\ last' = Result("volume", p, "none", "None")
            /\ UNCHANGED <<_initialized, numChannels, chan, built, speechVars>>

\* with Player(...) as p: entering the block
PlayerEnter(p) ==
    /\ UNCHANGED loopVars
    /\ players[p].live
    /\ last' = Result("__enter__", p, "none", "self")
    /\ UNCHANGED <<audioVars, speechVars>>

\* leaving the block, exc_type set when an exception is propagating
PlayerExit(p, exc_type) ==
    /\ UNCHANGED loopVars
    /\ players[p].live
    /\ IF ~_initialized
       THEN /\ last' = [Result("__exit__", p, "pygame.error", "None") EXCEPT !.exc = exc_type]
            /\ UNCHANGED <<audioVars, speechVars>>
       ELSE /\ chan' = IF get_busy(players[p].channel)
                       THEN ChannelStop(players[p].channel)
                       ELSE chan
            /\ last' = [Result("__exit__", p, "none", "None") EXCEPT !.exc = exc_type]
            /\ UNCHANGED <<_initialized, numChannels, players, built, speechVars>>

\* the mixer's audio thread reaches the end of the sound on a channel
SoundEnds(c) ==
    /\ UNCHANGED loopVars
    /\ c < numChannels
    /\ chan[c].state = "playing"
    /\ chan' = [chan EXCEPT ![c] = IdleChannel]
    /\ UNCHANGED <<_initialized, numChannels, players, built, speechVars, last>>

\* ---- the window's events -------------------------------------------------
QuitEvent == [type |-> "QUIT", key |-> "", unicode |-> ""]

MotionEvent == [type |-> "MOUSEMOTION", key |-> "", unicode |-> ""]

\* a KEYDOWN event: key holds pygame.key.name(event.key), unicode holds
\* event.unicode, which is the key code itself for every key below 128
\* ("\r" for Enter) and empty for keys such as the shift keys
KeyDown(name, unicode) == [type |-> "KEYDOWN", key |-> name, unicode |-> unicode]

KeyEvents == {KeyDown("a", "a"), KeyDown("return", "\r"), KeyDown("left shift", "")}

Events == {QuitEvent, MotionEvent} \cup KeyEvents

\* the window system posts an event
EventArrives(e) ==
    /\ _initialized
    /\ Len(queue) < MaxQueue
    /\ queue' = Append(queue, e)
    /\ UNCHANGED <<audioVars, speechVars, last, callVars>>

\* lines 124-125 and 139-140 while _initialized: pygame.quit(), then the
\* module's own exit(), which quits again, clears the flag and returns
QuitTeardown ==
    /\ _initialized' = FALSE
    /\ numChannels' = 0
    /\ chan' = [c \in Channels |-> IdleChannel]
    /\ ClearEvents
    /\ UNCHANGED <<players, built>>

Min(a, b) == IF a <= b THEN a ELSE b

\* ---- pause(seconds, update_callback) ------------------------------------
PausePcs == {"pause_test", "pause_poll", "pause_events", "pause_callback", "pause_flip", "pause_tick"}

\* lines 118-119: start = time.time(), clock = pygame.time.Clock()
PauseCall(s, cb) ==
    /\ pc = "idle"
    /\ pc' = "pause_test"
    /\ seconds' = s
    /\ hasCb' = cb
    /\ elapsed' = 0
    /\ frames' = 0
    /\ cbCount' = 0
    /\ cbFrame' = 0
    /\ quitSeen' = FALSE
    /\ batch' = <<>>
    /\ UNCHANGED <<audioVars, speechVars, last, eventVars>>

\* a loop test that gives up one frame period early
PauseTest_OneFrameEarly ==
    /\ pc = "pause_test"
    /\ IF elapsed + 1 < seconds
       THEN /\ pc' = "pause_poll"
            /\ UNCHANGED last
       ELSE /\ pc' = "idle"
            /\ last' = Result("module.pause", NoPlayer, "none", "None")
    /\ UNCHANGED <<audioVars, speechVars, eventVars, batch, seconds, elapsed,
                   hasCb, frames, cbCount, cbFrame, quitSeen>>

\* line 121: while time.time() - start < seconds
PauseTest ==
    /\ pc = "pause_test"
    /\ IF elapsed < seconds
       THEN /\ pc' = "pause_poll"
            /\ UNCHANGED last
       ELSE /\ pc' = "idle"
            /\ last' = Result("module.pause", NoPlayer, "none", "None")
    /\ UNCHANGED <<audioVars, speechVars, eventVars, batch, seconds, elapsed,
                   hasCb, frames, cbCount, cbFrame, quitSeen>>

\* line 122: pygame.event.get() empties the queue, or raises without a window;
\* a loop that ends polls at most MaxSeconds frames, where the count stops
PausePoll ==
    /\ pc = "pause_poll"
    /\ IF ~_initialized
       THEN /\ pc' = "idle"
            /\ last' = Result("module.pause", NoPlayer, "pygame.error", "None")
            /\ UNCHANGED <<batch, queue, frames, cbFrame>>
       ELSE /\ pc' = "pause_events"
            /\ batch' = queue
            /\ queue' = <<>>
            /\ frames' = Min(frames + 1, MaxSeconds)
            /\ cbFrame' = 0
            /\ UNCHANGED last
    /\ UNCHANGED <<audioVars, speechVars, seconds, elapsed, hasCb, cbCount,
                   quitSeen>>

\* lines 122-125: one turn of the for loop
PauseEvent ==
    /\ pc = "pause_events"
    /\ batch # <<>>
    /\ batch' = Tail(batch)
    /\ IF Head(batch).type # "QUIT"
       THEN UNCHANGED <<audioVars, eventVars, last, pc, quitSeen>>
       ELSE /\ quitSeen' = TRUE
            /\ IF _initialized
               THEN /\ QuitTeardown
                    /\ UNCHANGED <<last, pc>>
               ELSE /\ pc' = "idle"
                    /\ last' = Result("module.pause", NoPlayer, "RuntimeError", "None")
                    /\ UNCHANGED <<audioVars, eventVars>>
    /\ UNCHANGED <<speechVars, seconds, elapsed, hasCb, frames, cbCount, cbFrame>>

\* line 127: the for loop is over
PauseEventsDone ==
    /\ pc = "pause_events"
    /\ batch = <<>>
    /\ pc' = IF hasCb THEN "pause_callback" ELSE "pause_flip"
    /\ UNCHANGED <<audioVars, speechVars, last, eventVars, batch, seconds,
                   elapsed, hasCb, frames, cbCount, cbFrame, quitSeen>>

\* line 128: update_callback()
PauseCallback ==
    /\ pc = "pause_callback"
    /\ pc' = "pause_flip"
    /\ cbCount' = Min(cbCount + 1, MaxSeconds)
    /\ cbFrame' = cbFrame + 1
    /\ UNCHANGED <<audioVars, speechVars, last, eventVars, batch, seconds,
                   elapsed, hasCb, frames, quitSeen>>

\* line 130: pygame.display.flip() raises once the window is gone
PauseFlip ==
    /\ pc = "pause_flip"
    /\ IF ~_initialized
       THEN /\ pc' = "idle"
            /\ last' = Result("module.pause", NoPlayer, "pygame.error", "None")
       ELSE /\ pc' = "pause_tick"
            /\ UNCHANGED last
    /\ UNCHANGED <<audioVars, speechVars, eventVars, batch, seconds, elapsed,
                   hasCb, frames, cbCount, cbFrame, quitSeen>>

\* a loop that reads start again in every frame
PauseTick_RestartsClock(d) ==
    /\ pc = "pause_tick"
    /\ pc' = "pause_test"
    /\ elapsed' = 0
    /\ UNCHANGED <<audioVars, speechVars, last, eventVars, batch, seconds,
                   hasCb, frames, cbCount, cbFrame, quitSeen>>

\* line 131: clock.tick(60) ends the frame, d frame periods after it began
PauseTick(d) ==
    /\ pc = "pause_tick"
    /\ pc' = "pause_test"
    /\ elapsed' = Min(elapsed + d, MaxSeconds)
    /\ UNCHANGED <<audioVars, speechVars, last, eventVars, batch, seconds,
                   hasCb, frames, cbCount, cbFrame, quitSeen>>

\* ---- input() ------------------------------------------------------------
InputPcs == {"input_poll", "input_events"}

\* event.unicode if event.unicode else pygame.key.name(event.key)
KeyText(e) == IF e.unicode # "" THEN e.unicode ELSE e.key

\* line 134: the call
InputCall ==
    /\ pc = "idle"
    /\ pc' = "input_poll"
    /\ quitSeen' = FALSE
    /\ batch' = <<>>
    /\ UNCHANGED <<audioVars, speechVars, last, eventVars, seconds, elapsed,
                   hasCb, frames, cbCount, cbFrame>>

\* line 137: pygame.event.get()
InputPoll ==
    /\ pc = "input_poll"
    /\ IF ~_initialized
       THEN /\ pc' = "idle"
            /\ last' = Result("input", NoPlayer, "pygame.error", "None")
            /\ UNCHANGED <<batch, queue>>
       ELSE /\ pc' = "input_events"
            /\ batch' = queue
            /\ queue' = <<>>
            /\ UNCHANGED last
    /\ UNCHANGED <<audioVars, speechVars, seconds, elapsed, hasCb, frames,
                   cbCount, cbFrame, quitSeen>>

\* lines 137-144: one turn of the for loop
InputEvent ==
    /\ pc = "input_events"
    /\ batch # <<>>
    /\ IF Head(batch).type = "QUIT"
       THEN /\ quitSeen' = TRUE
            /\ batch' = Tail(batch)
            /\ IF _initialized
               THEN /\ QuitTeardown
                    /\ UNCHANGED <<last, pc>>
               ELSE /\ pc' = "idle"
                    /\ last' = Result("input", NoPlayer, "RuntimeError", "None")
                    /\ UNCHANGED <<audioVars, eventVars>>
       ELSE IF Head(batch).type = "KEYDOWN"
       THEN /\ pc' = "idle"
            /\ batch' = <<>>
            /\ last' = Result("input", NoPlayer, "none", KeyText(Head(batch)))
            /\ UNCHANGED <<audioVars, queue, quitSeen>>
       ELSE /\ batch' = Tail(batch)
            /\ UNCHANGED <<audioVars, eventVars, last, pc, quitSeen>>
    /\ UNCHANGED <<speechVars, seconds, elapsed, hasCb, frames, cbCount, cbFrame>>

\* line 136: the for loop is over, while True goes round
InputEventsDone ==
    /\ pc = "input_events"
    /\ batch = <<>>
    /\ pc' = "input_poll"
    /\ UNCHANGED <<audioVars, speechVars, last, eventVars, batch, seconds,
                   elapsed, hasCb, frames, cbCount, cbFrame, quitSeen>>

Init ==
    /\ _initialized = FALSE
    /\ numChannels = 0
    /\ chan = [c \in Channels |-> IdleChannel]
    /\ players = [p \in PlayerIds |-> NoPlayerObj]
    /\ built = 0
    /\ _process = NoProcess
    /\ procs = [q \in ProcIds |-> "none"]
    /\ spawned = 0
    /\ exePresent \in BOOLEAN
    /\ last = Result("import", NoPlayer, "none", "None")
    /\ pc = "idle"
    /\ queue = <<>>
    /\ batch = <<>>
    /\ seconds = 0
    /\ elapsed = 0
    /\ hasCb = FALSE
    /\ frames = 0
    /\ cbCount = 0
    /\ cbFrame = 0
    /\ quitSeen = FALSE

\* ---- specifications -----------------------------------------------------
\* the mixer, the window and the Players
NextAudio ==
    \/ \E n \in ChannelCounts : load(n)
    \/ exit
    \/ \E f \in BOOLEAN : PlayerInit(f)
    \/ \E p \in PlayerIds : play(p)
    \/ \E p \in PlayerIds : pause(p)
    \/ \E p \in PlayerIds : stop(p)
    \/ \E p \in PlayerIds : PlayerEnter(p)
    \/ \E p \in PlayerIds, e \in BOOLEAN : PlayerExit(p, e)
    \/ \E c \in Channels : SoundEnds(c)

\* the speech controller and the processes it spawns
NextSpeech ==
    \/ \E n \in ChannelCounts : load(n)
    \/ exit
    \/ speak
    \/ \E q \in ProcIds : ProcessExits(q)
    \/ PathChanges

\* every call that needs the mixer, with volume() tried while the flag is
\* false (before load() or after exit()), and speak()
NextGuard ==
    \/ \E n \in ChannelCounts : load(n)
    \/ exit
    \/ \E f \in BOOLEAN : PlayerInit(f)
    \/ \E p \in PlayerIds : play(p)
    \/ \E p \in PlayerIds : pause(p)
    \/ \E p \in PlayerIds : stop(p)
    \/ \E p \in PlayerIds, pct \in Percentages : ~_initialized /\ volume(p, pct)
    \/ speak

\* the volume of the Players' sounds
NextVolume ==
    \/ \E n \in ChannelCounts : load(n)
    \/ exit
    \/ \E f \in BOOLEAN : PlayerInit(f)
    \/ \E p \in PlayerIds, pct \in Percentages : volume(p, pct)

\* what the caller's single thread does between pause() and input() calls
NextWindow(evs) ==
    \/ pc = "idle" /\ load(MaxChannels)
    \/ pc = "idle" /\ exit
    \/ \E e \in evs : EventArrives(e)

PauseStep ==
    \/ PauseTest
    \/ PausePoll
    \/ PauseEvent
    \/ PauseEventsDone
    \/ PauseCallback
    \/ PauseFlip
    \/ \E d \in 1 .. MaxFrameTime : PauseTick(d)

InputStep ==
    \/ InputPoll
    \/ InputEvent
    \/ InputEventsDone

\* the delay loop
NextPause ==
    \/ NextWindow({QuitEvent, MotionEvent, KeyDown("a", "a")})
    \/ \E s \in 0 .. MaxSeconds, cb \in BOOLEAN : PauseCall(s, cb)
    \/ PauseStep

\* the keyboard loop
NextInput ==
    \/ NextWindow(Events)
    \/ InputCall
    \/ InputStep

\* both loops
NextLoop ==
    \/ NextWindow({QuitEvent, KeyDown("a", "a")})
    \/ \E s \in 0 .. MaxSeconds, cb \in BOOLEAN : PauseCall(s, cb)
    \/ PauseStep
    \/ InputCall
    \/ InputStep

Next ==
    \/ NextLoop
    \/ NextAudio
    \/ NextSpeech
    \/ \E p \in PlayerIds, pct \in Percentages : volume(p, pct)

Spec == Init /\ [][Next]_vars

SpecAudio == Init /\ [][NextAudio]_vars

SpecSpeech == Init /\ [][NextSpeech]_vars

SpecGuard == Init /\ [][NextGuard]_vars

SpecVolume == Init /\ [][NextVolume]_vars

SpecPause == Init /\ [][NextPause]_vars

SpecInput == Init /\ [][NextInput]_vars

SpecLoop == Init /\ [][NextLoop]_vars

\* the Players, with volume() calls that are out of range
NextFrame ==
    \/ NextAudio
    \/ \E p \in PlayerIds, pct \in {-1, 101} : volume(p, pct)

SpecFrame == Init /\ [][NextFrame]_vars

\* the interpreter keeps running the pause() call it is in and the
\* callback returns
SpecLoopFair == Init /\ [][NextLoop]_vars /\ WF_vars(PauseStep)

\* ---- steps and state the properties speak about -------------------------
LoadStep == \E n \in ChannelCounts : load(n)

Raised == last'.raised # "none"

Running(q) == procs[q] \in {"running", "terminating"}

\* the Player's channel is audibly playing (busy and not paused)
Playing(p) ==
    /\ get_busy(players[p].channel)
    /\ chan[players[p].channel].state = "playing"

\* ---- C1 -----------------------------------------------------------------
\* C1: load() raises exactly when the initialized flag is already true and
\* exit() exactly when it is false; a successful load() sets the flag, a
\* successful exit() clears it, a rejected call leaves it; so a load() that
\* directly follows a successful exit() (or the start), and an exit() that
\* directly follows a successful load(), never raises.
C1_LoadExitAlternate ==
    [][ /\ LoadStep => /\ Raised <=> _initialized
                       /\ _initialized'
                       /\ (last.op \in {"import", "exit"} /\ last.raised = "none") => ~Raised
        /\ exit => /\ Raised <=> ~_initialized
                   /\ ~_initialized'
                   /\ (last.op = "load" /\ last.raised = "none") => ~Raised
      ]_vars

\* a second successful load(): a Player built under the first one is still there
C1_Witness ==
    /\ last.op = "load"
    /\ last.raised = "none"
    /\ \E p \in PlayerIds : players[p].live

\* ---- C2 -----------------------------------------------------------------
PlayerOpStep ==
    \/ \E f \in BOOLEAN : PlayerInit(f)
    \/ \E p \in PlayerIds : play(p) \/ pause(p) \/ stop(p)
    \/ \E p \in PlayerIds, pct \in Percentages : volume(p, pct)

\* C2 as stated: while the initialized flag is false, Player construction,
\* play(), pause(), stop(), volume() and speak() all fail and change nothing
\* (no sound starts, no speech process is spawned).
C2_AllRequireInitialized ==
    [][ (~_initialized /\ (PlayerOpStep \/ speak))
            => /\ Raised \/ last'.ret = "False"
               /\ UNCHANGED <<audioVars, speechVars>>
      ]_vars

\* C2 amended: while the initialized flag is false, Player construction,
\* play(), pause(), stop() and volume() raise and change nothing; speak()
\* does not look at the flag and still succeeds when the executable is found.
C2_PlayerOpsRequireInitialized ==
    [][ /\ (~_initialized /\ PlayerOpStep)
            => (Raised /\ UNCHANGED <<audioVars, speechVars>>)
        /\ (~_initialized /\ exePresent /\ speak)
            => (last'.ret = "True" /\ spawned' = spawned + 1)
      ]_vars

\* a Player that outlived exit() is asked to play and refuses
C2_Witness ==
    /\ ~_initialized
    /\ last.op = "play"
    /\ last.raised = "NotInitialized"
    /\ spawned > 0

\* ---- C3 -----------------------------------------------------------------
\* C3: no two live Players are bound to the same channel.
C3_ExclusiveChannel ==
    \A p, q \in PlayerIds :
        (p # q /\ players[p].live /\ players[q].live)
            => players[p].channel # players[q].channel

\* ---- C4 -----------------------------------------------------------------
\* C4: after load(n) at most n Player constructions succeed, the next one
\* raises the no-channel error whatever was played, paused or stopped.
C4_ConstructionsBoundedByChannels ==
    _initialized => built <= numChannels

\* ---- C5 -----------------------------------------------------------------
\* C5 as stated: speak() with the executable missing returns false, raises
\* nothing, spawns nothing and leaves no handle stored.
C5_AbsentLeavesNoHandle ==
    [][ (~exePresent /\ speak)
            => /\ last'.ret = "False"
               /\ ~Raised
               /\ UNCHANGED <<procs, spawned>>
               /\ _process' = NoProcess
      ]_vars

\* C5 amended: speak() with the executable missing returns false, raises
\* nothing, spawns nothing, terminates nothing and leaves the stored handle
\* as it was: none if no speak() succeeded before, else the earlier handle.
C5_AbsentLeavesHandleAsItWas ==
    [][ (~exePresent /\ speak)
            => /\ last'.ret = "False"
               /\ ~Raised
               /\ UNCHANGED <<procs, spawned, _process>>
      ]_vars

\* speak() returned false while an earlier handle is stored
C5_Witness ==
    /\ last.op = "speak"
    /\ last.ret = "False"
    /\ _process # NoProcess

\* ---- C6 -----------------------------------------------------------------
\* C6: with the executable present speak() returns true and never raises,
\* whatever the previous handle is (none, running, exited); the previous
\* handle is no longer running unasked, the stored handle is the process
\* just spawned and no other process is touched; at all times the stored
\* handle is the last process spawned.
C6_SpeakTracksLastSpawned ==
    /\ [](_process = spawned)
    /\ [][ (exePresent /\ speak)
            => /\ last'.ret = "True"
               /\ ~Raised
               /\ spawned' = spawned + 1
               /\ _process' = spawned'
               /\ procs'[_process'] = "running"
               /\ _process # NoProcess =>
                     procs'[_process] = (IF procs[_process] = "running"
                                         THEN "terminating" ELSE procs[_process])
               /\ \A q \in ProcIds \ {_process, _process'} : procs'[q] = procs[q]
         ]_vars

\* a second speak() cut off a first process that was still speaking
C6_Witness ==
    /\ last.op = "speak"
    /\ last.ret = "True"
    /\ _process = 2
    /\ procs[1] = "terminating"
    /\ procs[2] = "running"

\* ---- C7 -----------------------------------------------------------------
\* C7 as stated: at most one spawned speech process has not exited yet.
C7_AtMostOneNotExited ==
    Cardinality({q \in ProcIds : Running(q)}) <= 1

\* C7 amended: at most one speech process is running without having been
\* asked to terminate, and it is the stored handle; processes that were
\* asked to terminate may still be running next to it.
C7_AtMostOneNotAskedToTerminate ==
    \A q \in ProcIds : procs[q] = "running" => q = _process

\* the new process speaks while the old one has not yet acted on SIGTERM
C7_Witness ==
    \E q, r \in ProcIds : procs[q] = "terminating" /\ procs[r] = "running"

\* ---- C8 -----------------------------------------------------------------
\* C8: Player.pause() and Player.stop() raise exactly when the Player's
\* channel is not active (neither playing nor paused); a successful pause()
\* leaves the channel paused and the paused flag set, a successful stop()
\* clears the flag, after stop() the channel is not active, and a stop()
\* that directly follows a stop() of the same Player raises.
C8_PauseStopNeedActiveChannel ==
    [][ \A p \in PlayerIds :
          /\ pause(p) => /\ Raised <=> ~get_busy(players[p].channel)
                         /\ ~Raised => /\ players'[p]._paused
                                       /\ chan'[players[p].channel].state = "paused"
          /\ stop(p) => /\ Raised <=> ~get_busy(players[p].channel)
                        /\ ~Raised => ~players'[p]._paused
                        /\ ~get_busy(players[p].channel)'
                        /\ (last.op = "stop" /\ last.p = p) => Raised
      ]_vars

\* the second of two stop() calls, refused
C8_Witness ==
    /\ _initialized
    /\ last.op = "stop"
    /\ last.raised = "NotPlaying"
    /\ ~players[last.p]._paused

\* ---- C9 -----------------------------------------------------------------
\* C9: while initialized, play() leaves the Player's channel actively
\* playing with the paused flag false, whatever came before.
C9_PlayLeavesChannelPlaying ==
    [][ \A p \in PlayerIds :
          (_initialized /\ play(p)) => (Playing(p)' /\ ~players'[p]._paused)
      ]_vars

\* ---- C10 ----------------------------------------------------------------
\* C10: leaving a with block over a Player leaves its channel not active,
\* does not raise when the channel is already inactive and does not
\* suppress the exception that ended the block.
C10_ScopeExitStopsQuietly ==
    [][ \A p \in PlayerIds, e \in BOOLEAN :
          PlayerExit(p, e) => /\ ~get_busy(players[p].channel)'
                              /\ ~get_busy(players[p].channel) => ~Raised
                              /\ last'.ret # "True"
      ]_vars

\* ---- C11 ----------------------------------------------------------------
InRange(pct) == 0 <= pct /\ pct <= 100

\* C11 as stated: volume(p) never raises for 0 <= p <= 100 and sets the
\* level to p/100 of the original; for p < 0 or p > 100 it raises
\* ValueError and leaves the volume as it was.
C11_VolumeExactInRange ==
    [][ \A p \in PlayerIds, pct \in Percentages :
          volume(p, pct) =>
              /\ InRange(pct) => /\ ~Raised
                                 /\ players'[p].volume * 100 = pct * MIX_MAX_VOLUME
              /\ ~InRange(pct) => /\ last'.raised = "ValueError"
                                  /\ UNCHANGED players
      ]_vars

\* C11 amended: for p < 0 or p > 100 volume(p) raises ValueError in every
\* state; for 0 <= p <= 100 it never raises while the mixer is initialized
\* and sets the level to p/100 cut down to a whole number of 128ths of the
\* original (exactly p/100 for 0, 25, 50, 75 and 100), and raises the
\* mixer's own error while the mixer is not initialized; every rejected
\* call leaves the volume unchanged and no call touches another Player.
C11_VolumeInRangeWhileInitialized ==
    [][ \A p \in PlayerIds, pct \in Percentages :
          volume(p, pct) =>
              /\ ~InRange(pct) => last'.raised = "ValueError"
              /\ (InRange(pct) /\ ~_initialized) => last'.raised = "pygame.error"
              /\ Raised => UNCHANGED players
              /\ (InRange(pct) /\ _initialized) =>
                    /\ ~Raised
                    /\ players'[p].volume * 100 <= pct * MIX_MAX_VOLUME
                    /\ pct * MIX_MAX_VOLUME < (players'[p].volume + 1) * 100
                    /\ pct \in {0, 25, 50, 75, 100} =>
                          players'[p].volume * 100 = pct * MIX_MAX_VOLUME
              /\ \A q \in PlayerIds \ {p} : players'[q] = players[q]
      ]_vars

\* volume(10) was accepted and left 12/128 of the original, not 10/100
C11_Witness ==
    /\ last.op = "volume"
    /\ last.raised = "none"
    /\ players[last.p].volume = 12

\* ---- steps of the loops the properties speak about -----------------------
InCall == pc \in PausePcs \cup InputPcs

ReturnsNormally == pc # "idle" /\ pc' = "idle" /\ last'.raised = "none"

IsKeyDown(e) == e.type = "KEYDOWN"

\* the key-down events among the events fetched and the events queued
PendingKeys(fetched, queued) == SelectSeq(fetched \o queued, IsKeyDown)

\* ---- C12 ----------------------------------------------------------------
\* C12: pause(seconds, cb) returns normally only once time.time() - start
\* has reached seconds; the callback runs at most once in each polled
\* frame, and at least once before the return when seconds spans more than
\* one frame period.
C12_PauseWaitsAndCallsBack ==
    /\ [](cbFrame <= 1 /\ cbCount <= frames)
    /\ [][ (pc \in PausePcs /\ ReturnsNormally)
              => /\ elapsed >= seconds
                 /\ (hasCb /\ seconds > 1) => cbCount >= 1
         ]_vars

\* pause(2 or more, cb) has returned after two frames and two callbacks
C12_Witness ==
    /\ pc = "idle"
    /\ last.op = "module.pause"
    /\ last.raised = "none"
    /\ hasCb
    /\ seconds >= 2
    /\ frames >= 2
    /\ cbCount = frames
    /\ elapsed >= seconds

\* ---- C13 ----------------------------------------------------------------
\* C13: input() returns only on a key-down event taken from the queue, and
\* returns that key's printable character if it has one, else its symbolic
\* name; never an empty result.
C13_InputReturnsCharOrName ==
    [][ (pc \in InputPcs /\ ReturnsNormally)
           => /\ batch # <<>>
              /\ IsKeyDown(Head(batch))
              /\ LET e == Head(batch)
                     printable == e.unicode # "" /\ e.unicode # "\r"
                 IN  last'.ret = IF printable THEN e.unicode ELSE e.key
              /\ last'.ret # ""
      ]_vars

\* ---- C14 ----------------------------------------------------------------
\* C14: once pause() or input() has handled a QUIT event the flag is false
\* and the call does nothing more: it takes no further event from the list
\* it fetched, does not invoke the callback and does not return normally.
C14_QuitEndsTheCall ==
    /\ []((quitSeen /\ InCall) => ~_initialized)
    /\ [][ (quitSeen /\ InCall)
              => /\ batch' = batch
                 /\ cbCount' = cbCount
                 /\ ~ReturnsNormally
         ]_vars

\* ---- C15 ----------------------------------------------------------------
\* C15: every pause() call ends, by returning or through the quit path,
\* given that the interpreter keeps running and the clock advances; input()
\* leaves its loop normally only on a key-down event.
C15_PauseEndsInputWaits ==
    /\ (pc \in PausePcs) ~> (pc = "idle")
    /\ [][ (pc \in InputPcs /\ ReturnsNormally)
              => (batch # <<>> /\ IsKeyDown(Head(batch)))
         ]_vars

\* pause(MaxSeconds) has returned after more than one frame
C15_Witness ==
    /\ pc = "idle"
    /\ last.op = "module.pause"
    /\ last.raised = "none"
    /\ seconds = MaxSeconds
    /\ frames >= 2

\* ---- C16 ----------------------------------------------------------------
\* C16: the callback of pause() is only invoked while the initialized flag
\* is true.
C16_CallbackOnlyWhileInitialized ==
    [][ PauseCallback => _initialized ]_vars

\* ---- C17 ----------------------------------------------------------------
\* C17: input() loses no key press: over every step of an input() call in
\* which no QUIT is handled, the key-down events still pending (fetched or
\* queued) are the ones pending before, in order, less the one returned.
C17_NoKeyLost ==
    [][ (InputStep /\ ~quitSeen')
           => PendingKeys(batch, queue) =
                 (IF ReturnsNormally THEN <<Head(batch)>> ELSE <<>>)
                    \o PendingKeys(batch', queue')
      ]_vars

\* ---- C18 ----------------------------------------------------------------
RejectableStep ==
    \/ LoadStep
    \/ exit
    \/ \E f \in BOOLEAN : PlayerInit(f)
    \/ \E p \in PlayerIds : play(p) \/ pause(p) \/ stop(p)
    \/ \E p \in PlayerIds, pct \in Percentages : volume(p, pct)

\* C18: a load(), exit(), Player construction, play(), pause(), stop() or
\* volume() that raises leaves the flag, every channel and every Player as
\* they were.
C18_RejectedCallsChangeNothing ==
    [][ (Raised /\ RejectableStep)
           => UNCHANGED <<audioVars, speechVars, loopVars>>
      ]_vars

\* a refused stop() on a Player whose paused flag is still set
C18_Witness ==
    /\ last.op = "stop"
    /\ last.raised = "NotPlaying"
    /\ players[last.p]._paused
====
